---- MODULE Spec2Model ----
(***************************************************************************)
(* Symbolic expressions (src/expressions/expressions.py): expression       *)
(* nodes built by the overloaded arithmetic operators, their rendering     *)
(* with __str__, the non-recursive postvisitor and the differentiate       *)
(* single-dispatch fold.                                                   *)
(*                                                                         *)
(* Python objects have identity, so the nodes live in a heap (a sequence   *)
(* of node records) and a node is named by its index.  A Python value is a *)
(* record [tag, n, s]: a raw number ("int"), a string ("str"), a reference *)
(* to a node of the heap ("ref") or None.                                  *)
(***************************************************************************)
EXTENDS Integers, Sequences, FiniteSets, TLC

VARIABLES
    heap,      \* the Expression objects constructed so far, by identity
    lastOp,    \* the operands given to the last overloaded operator call
    pc,        \* "idle", "rendered", "loop", "returned" or "raised"
    expr,      \* the node given to str() or to postvisitor (0: none yet)
    fn,        \* the fold function given to postvisitor
    var,       \* the keyword argument var given to postvisitor
    stack,     \* postvisitor's work stack (top is the last element)
    visited,   \* postvisitor's memo: node identity -> result of fn
    calls,     \* every invocation of fn so far: node, arguments, result
    result,    \* the value postvisitor returned
    out,       \* the string str() returned
    depth,     \* nested activations of the traversal routine that ran
    exc        \* the exception that ended the run ("" when none)

vars == <<heap, lastOp, pc, expr, fn, var, stack, visited, calls, result, out,
          depth, exc>>

\* Bound: the number of nodes the caller constructs before a traversal.
MaxHeap == 3

\* Inputs: symbol names, number values, numeric literals, variables, folds.
SymbolNames == {"x"}
NumberValues == {2}
Literals == {3}
Variables == {"x", "y"}
Folds == {"differentiate", "count"}

(***************************************************************************)
(* Python values                                                           *)
(***************************************************************************)
PyNone == [tag |-> "none", n |-> 0, s |-> ""]
PyInt(i) == [tag |-> "int", n |-> i, s |-> ""]
PyStr(t) == [tag |-> "str", n |-> 0, s |-> t]
PyRef(i) == [tag |-> "ref", n |-> i, s |-> ""]

\* isinstance(other, n.Number)
isinstance_Number(v) == v.tag = "int"

(***************************************************************************)
(* Node model: class attributes                                            *)
(***************************************************************************)
OperatorKinds == {"Add", "Sub", "Mul", "Div", "Pow"}
TerminalKinds == {"Number", "Symbol"}

precedence(kind) ==
    CASE kind \in {"Add", "Sub"} -> 0
      [] kind \in {"Mul", "Div"} -> 1
      [] kind = "Pow" -> 2
      [] kind \in TerminalKinds -> 3

sym(kind) ==
    CASE kind = "Add" -> "+"
      [] kind = "Sub" -> "-"
      [] kind = "Mul" -> "*"
      [] kind = "Div" -> "/"
      [] kind = "Pow" -> "^"

(***************************************************************************)
(* Construction.  Every constructor takes the heap and gives the heap with  *)
(* the new object appended and a reference to it; no existing object is    *)
(* written.                                                                *)
(***************************************************************************)
\* Expression.__init__(self, *operands), for the operator class `kind`
Expression(h, kind, operands) ==
    [heap |-> Append(h, [kind |-> kind, value |-> PyNone, operands |-> operands]),
     val |-> PyRef(Len(h) + 1)]

\* Terminal.__init__(self, value), for the terminal class `kind`
Terminal(h, kind, value) ==
    [heap |-> Append(h, [kind |-> kind, value |-> value, operands |-> <<>>]),
     val |-> PyRef(Len(h) + 1)]

Number(h, value) == Terminal(h, "Number", value)

Symbol(h, value) == Terminal(h, "Symbol", value)

\* if isinstance(other, n.Number): other = Number(other)
coerce(h, other) ==
    IF isinstance_Number(other) THEN Number(h, other)
    ELSE [heap |-> h, val |-> other]

__add__(h, self, other) ==
    LET o == coerce(h, other) IN Expression(o.heap, "Add", <<self.n, o.val.n>>)

__radd__(h, self, other) ==
    LET o == coerce(h, other) IN Expression(o.heap, "Add", <<o.val.n, self.n>>)

__sub__(h, self, other) ==
    LET o == coerce(h, other) IN Expression(o.heap, "Sub", <<self.n, o.val.n>>)

__rsub__swapped(h, self, other) ==
    LET o == coerce(h, other) IN Expression(o.heap, "Sub", <<self.n, o.val.n>>)

__rsub__(h, self, other) ==
    LET o == coerce(h, other) IN Expression(o.heap, "Sub", <<o.val.n, self.n>>)

__mul__(h, self, other) ==
    LET o == coerce(h, other) IN Expression(o.heap, "Mul", <<self.n, o.val.n>>)

__rmul__(h, self, other) ==
    LET o == coerce(h, other) IN Expression(o.heap, "Mul", <<o.val.n, self.n>>)

__truediv__(h, self, other) ==
    LET o == coerce(h, other) IN Expression(o.heap, "Div", <<self.n, o.val.n>>)

__rtruediv__(h, self, other) ==
    LET o == coerce(h, other) IN Expression(o.heap, "Div", <<o.val.n, self.n>>)

__pow__(h, self, other) ==
    LET o == coerce(h, other) IN Expression(o.heap, "Pow", <<self.n, o.val.n>>)

__rpow__(h, self, other) ==
    LET o == coerce(h, other) IN Expression(o.heap, "Pow", <<o.val.n, self.n>>)

\* left.__op__(right)
forward(h, op, self, other) ==
    CASE op = "Add" -> __add__(h, self, other)
      [] op = "Sub" -> __sub__(h, self, other)
      [] op = "Mul" -> __mul__(h, self, other)
      [] op = "Div" -> __truediv__(h, self, other)
      [] op = "Pow" -> __pow__(h, self, other)

\* right.__rop__(left)
reflected(h, op, self, other) ==
    CASE op = "Add" -> __radd__(h, self, other)
      [] op = "Sub" -> __rsub__(h, self, other)
      [] op = "Mul" -> __rmul__(h, self, other)
      [] op = "Div" -> __rtruediv__(h, self, other)
      [] op = "Pow" -> __rpow__(h, self, other)

\* Arithmetic of two raw numbers: no node is built.  Of the rules of
\* differentiate only Add's o[0] + o[1] can meet two raw numbers.
number_arith(op, a, b) ==
    CASE op = "Add" -> PyInt(a.n + b.n)
      [] op = "Sub" -> PyInt(a.n - b.n)
      [] op = "Mul" -> PyInt(a.n * b.n)

\* The expression `left op right`: the left operand's method when the left
\* operand is an Expression; a raw number on the left knows no Expression
\* (NotImplemented), so the right operand's reflected method is called.
binary_op(h, op, left, right) ==
    IF left.tag = "ref" THEN forward(h, op, left, right)
    ELSE IF right.tag = "ref" THEN reflected(h, op, right, left)
    ELSE [heap |-> h, val |-> number_arith(op, left, right)]

(***************************************************************************)
(* Rendering                                                               *)
(***************************************************************************)
\* Terminal.__str__: str(self.value)
Terminal__str__(node) ==
    IF node.value.tag = "int" THEN ToString(node.value.n) ELSE node.value.s

paren_not_above(childPrec, ownPrec) == childPrec <= ownPrec

\* type(self.operands[i]).precedence < type(self).precedence
paren(childPrec, ownPrec) == childPrec < ownPrec

RECURSIVE __str__(_, _)
\* Operator.__str__ (and Terminal.__str__ for a terminal), on node i of h
__str__(h, i) ==
    IF h[i].kind \in TerminalKinds THEN Terminal__str__(h[i])
    ELSE LET self == h[i]
             b == [k \in 1..2 |->
                     paren(precedence(h[self.operands[k]].kind),
                           precedence(self.kind))]
             s0 == __str__(h, self.operands[1])
             s1 == __str__(h, self.operands[2])
         IN  IF b = <<TRUE, TRUE>>
               THEN "(" \o s0 \o ")" \o " " \o sym(self.kind) \o " " \o "(" \o s1 \o ")"
             ELSE IF b = <<TRUE, FALSE>>
               THEN "(" \o s0 \o ")" \o " " \o sym(self.kind) \o " " \o s1
             ELSE IF b = <<FALSE, TRUE>>
               THEN s0 \o " " \o sym(self.kind) \o " " \o "(" \o s1 \o ")"
             ELSE s0 \o " " \o sym(self.kind) \o " " \o s1

\* The builtin str(v): a raw number prints as itself, a node by __str__.
str(h, v) == IF v.tag = "int" THEN ToString(v.n) ELSE __str__(h, v.n)

Max(a, b) == IF a >= b THEN a ELSE b

RECURSIVE str_depth(_, _)
\* The deepest nesting of __str__ activations while node i is rendered:
\* Operator.__str__ calls str() on both operands before it returns.
str_depth(h, i) ==
    IF h[i].kind \in TerminalKinds THEN 1
    ELSE 1 + Max(str_depth(h, h[i].operands[1]), str_depth(h, h[i].operands[2]))

(***************************************************************************)
(* Fold functions.  A fold gives [heap, val, exc]: the heap with the nodes  *)
(* it built, the value it returned, and the exception it raised ("" when   *)
(* it returned).                                                           *)
(***************************************************************************)
returns(r) == [heap |-> r.heap, val |-> r.val, exc |-> ""]

\* Sequencing: the value of the sub-expression `first` is computed once and
\* named, then the rest of the expression is evaluated with it.
then(first, Rest(_)) == CHOOSE r \in {Rest(t) : t \in {first}} : TRUE

\* @singledispatch differentiate: raise NotImplementedError
differentiate_base(h, e, o, v) ==
    [heap |-> h, val |-> PyNone, exc |-> "NotImplementedError"]

\* @differentiate.register(Number): return 0
differentiate_Number(h, e, o, v) == returns([heap |-> h, val |-> PyInt(0)])

differentiate_Symbol_always(h, e, o, v) == returns([heap |-> h, val |-> PyInt(1)])

\* @differentiate.register(Symbol): 1 if expr.value == var else 0
differentiate_Symbol(h, e, o, v) ==
    IF h[e].value.s = v THEN returns([heap |-> h, val |-> PyInt(1)])
    ELSE returns([heap |-> h, val |-> PyInt(0)])

\* @differentiate.register(Add): o[0] + o[1]
differentiate_Add(h, e, o, v) == returns(binary_op(h, "Add", o[1], o[2]))

differentiate_Mul_derived(h, e, o, v) ==
    then(binary_op(h, "Mul", o[1], o[2]), LAMBDA t1 :
    then(binary_op(t1.heap, "Mul", o[2], o[1]), LAMBDA t2 :
    returns(binary_op(t2.heap, "Add", t1.val, t2.val))))

\* @differentiate.register(Mul):
\*   o[0] * expr.operands[1] + o[1] * expr.operands[0]
differentiate_Mul(h, e, o, v) ==
    then(binary_op(h, "Mul", o[1], PyRef(h[e].operands[2])), LAMBDA t1 :
    then(binary_op(t1.heap, "Mul", o[2], PyRef(h[e].operands[1])), LAMBDA t2 :
    returns(binary_op(t2.heap, "Add", t1.val, t2.val))))

\* @differentiate.register(Div):
\*   (o[0] * expr.operands[1] - o[1] * expr.operands[0]) / (expr.operands[1])**2
differentiate_Div(h, e, o, v) ==
    then(binary_op(h, "Mul", o[1], PyRef(h[e].operands[2])), LAMBDA t1 :
    then(binary_op(t1.heap, "Mul", o[2], PyRef(h[e].operands[1])), LAMBDA t2 :
    then(binary_op(t2.heap, "Sub", t1.val, t2.val), LAMBDA t3 :
    then(binary_op(t3.heap, "Pow", PyRef(h[e].operands[2]), PyInt(2)), LAMBDA t4 :
    returns(binary_op(t4.heap, "Div", t3.val, t4.val))))))

\* @differentiate.register(Pow):
\*   o[0] * expr.operands[1] * expr.operands[0] ** (expr.operands[1] - 1)
differentiate_Pow(h, e, o, v) ==
    then(binary_op(h, "Mul", o[1], PyRef(h[e].operands[2])), LAMBDA t1 :
    then(binary_op(t1.heap, "Sub", PyRef(h[e].operands[2]), PyInt(1)), LAMBDA t2 :
    then(binary_op(t2.heap, "Pow", PyRef(h[e].operands[1]), t2.val), LAMBDA t3 :
    returns(binary_op(t3.heap, "Mul", t1.val, t3.val)))))

\* differentiate(expr, *o, var=v): dispatch on type(expr); a class with no
\* registered rule (Sub) falls to the base function.
differentiate(h, e, o, v) ==
    CASE h[e].kind = "Number" -> differentiate_Number(h, e, o, v)
      [] h[e].kind = "Symbol" -> differentiate_Symbol(h, e, o, v)
      [] h[e].kind = "Add" -> differentiate_Add(h, e, o, v)
      [] h[e].kind = "Mul" -> differentiate_Mul(h, e, o, v)
      [] h[e].kind = "Div" -> differentiate_Div(h, e, o, v)
      [] h[e].kind = "Pow" -> differentiate_Pow(h, e, o, v)
      [] OTHER -> differentiate_base(h, e, o, v)

\* A caller's total fold: the number of nodes of the expression as a tree,
\* fn(expr, *o, **kwarg) = 1 + sum(o).  It builds no node.
count(h, e, o, v) ==
    returns([heap |-> h,
             val |-> PyInt(1 + (IF Len(o) = 2 THEN o[1].n + o[2].n ELSE 0))])

\* fn(e, *(visited[o] for o in e.operands), **kwarg)
call_fn(f, h, e, o, v) ==
    IF f = "differentiate" THEN differentiate(h, e, o, v) ELSE count(h, e, o, v)

(***************************************************************************)
(* postvisitor                                                             *)
(***************************************************************************)
\* unvisited_children: for o in e.operands: if o not in visited: append(o)
unvisited_children(h, e, memo) ==
    LET NotVisited(o) == o \notin DOMAIN memo IN SelectSeq(h[e].operands, NotVisited)

Reverse(s) == [k \in 1..Len(s) |-> s[Len(s) + 1 - k]]

operand_results_reversed(h, e, memo) ==
    Reverse([k \in 1..Len(h[e].operands) |-> memo[h[e].operands[k]]])

\* (visited[o] for o in e.operands)
operand_results(h, e, memo) ==
    [k \in 1..Len(h[e].operands) |-> memo[h[e].operands[k]]]

push_children_only(s, e, uc) == s \o uc

\* stack.append(e); for uc in unvisited_children: stack.append(uc)
push(s, e, uc) == Append(s, e) \o uc

\* visited[e] = r
store(memo, e, r) ==
    [k \in DOMAIN memo \cup {e} |-> IF k = e THEN r ELSE memo[k]]

(***************************************************************************)
(* The state machine                                                       *)
(***************************************************************************)
NoOp == [op |-> "none", left |-> PyNone, right |-> PyNone]

Init ==
    /\ heap = <<>>
    /\ lastOp = NoOp
    /\ pc = "idle"
    /\ expr = 0
    /\ fn = ""
    /\ var = ""
    /\ stack = <<>>
    /\ visited = <<>>
    /\ calls = <<>>
    /\ result = PyNone
    /\ out = ""
    /\ depth = 0
    /\ exc = ""

traversal_vars == <<pc, expr, fn, var, stack, visited, calls, result, out, depth, exc>>

\* Symbol(name)
NewSymbol ==
    /\ pc = "idle"
    /\ Len(heap) < MaxHeap
    /\ \E name \in SymbolNames : heap' = Symbol(heap, PyStr(name)).heap
    /\ lastOp' = NoOp
    /\ UNCHANGED traversal_vars

\* Number(value)
NewNumber ==
    /\ pc = "idle"
    /\ Len(heap) < MaxHeap
    /\ \E value \in NumberValues : heap' = Number(heap, PyInt(value)).heap
    /\ lastOp' = NoOp
    /\ UNCHANGED traversal_vars

\* What the caller can give an overloaded operator: a node or a numeric literal.
Operands == {PyRef(i) : i \in DOMAIN heap} \cup {PyInt(l) : l \in Literals}

\* left op right, with an Expression on at least one side
BuildOperator ==
    /\ pc = "idle"
    /\ \E op \in OperatorKinds, left \in Operands, right \in Operands :
          /\ left.tag = "ref" \/ right.tag = "ref"
          /\ LET r == binary_op(heap, op, left, right)
             IN  /\ Len(r.heap) <= MaxHeap
                 /\ heap' = r.heap
                 /\ lastOp' = [op |-> op, left |-> left, right |-> right]
    /\ UNCHANGED traversal_vars

\* str(expr) on the expression just built
Render ==
    /\ pc = "idle"
    /\ heap # <<>>
    /\ expr' = Len(heap)
    /\ out' = str(heap, PyRef(Len(heap)))
    /\ depth' = str_depth(heap, Len(heap))
    /\ pc' = "rendered"
    /\ UNCHANGED <<heap, lastOp, fn, var, stack, visited, calls, result, exc>>

\* postvisitor(expr, fn, var=v) is entered: stack = [expr], visited = {}
Start ==
    /\ pc = "idle"
    /\ heap # <<>>
    /\ expr' = Len(heap)
    /\ \E f \in Folds, v \in Variables :
          /\ f = "count" => v = "x"    \* count ignores its keyword arguments
          /\ fn' = f
          /\ var' = v
    /\ stack' = <<Len(heap)>>
    /\ visited' = <<>>
    /\ depth' = 1
    /\ pc' = "loop"
    /\ UNCHANGED <<heap, lastOp, calls, result, out, exc>>

\* One iteration of `while stack:`
Step ==
    /\ pc = "loop"
    /\ stack # <<>>
    /\ LET e == stack[Len(stack)]
           popped == SubSeq(stack, 1, Len(stack) - 1)
           uc == unvisited_children(heap, e, visited)
       IN  IF uc # <<>>
             THEN /\ stack' = push(popped, e, uc)
                  /\ UNCHANGED <<heap, visited, calls, pc, exc>>
           ELSE \E o \in {operand_results(heap, e, visited)} :
                \E r \in {call_fn(fn, heap, e, o, var)} :
                    /\ stack' = popped
                    /\ heap' = r.heap
                    /\ calls' = Append(calls, [node |-> e, args |-> o,
                                               result |-> r.val, exc |-> r.exc])
                    /\ IF r.exc = ""
                         THEN /\ visited' = store(visited, e, r.val)
                              /\ UNCHANGED <<pc, exc>>
                       ELSE /\ pc' = "raised"
                            /\ exc' = r.exc
                            /\ UNCHANGED visited
    /\ UNCHANGED <<lastOp, expr, fn, var, result, out, depth>>

\* return visited[expr]
Return ==
    /\ pc = "loop"
    /\ stack = <<>>
    /\ IF expr \in DOMAIN visited
         THEN /\ result' = visited[expr]
              /\ pc' = "returned"
              /\ UNCHANGED exc
       ELSE /\ pc' = "raised"
            /\ exc' = "KeyError"
            /\ UNCHANGED result
    /\ UNCHANGED <<heap, lastOp, expr, fn, var, stack, visited, calls, out, depth>>

Next == NewSymbol \/ NewNumber \/ BuildOperator \/ Render \/ Start \/ Step \/ Return

Spec == Init /\ [][Next]_vars

\* The loop and the return are straight-line code of one call: once entered,
\* postvisitor keeps running.
FairSpec == Spec /\ WF_vars(Step) /\ WF_vars(Return)

(***************************************************************************)
(* Vocabulary of the properties                                            *)
(***************************************************************************)
\* Node id stands for the value v given to an overloaded operator or rule:
\* the node itself, or a Number terminal that holds the raw number v.
Represents(h, id, v) ==
    IF v.tag = "ref" THEN id = v.n
    ELSE /\ h[id].kind = "Number"
         /\ h[id].value = v
         /\ h[id].operands = <<>>

\* Node id is an operator node of class kind over the nodes l and r, in order.
IsOperatorNode(h, id, kind, l, r) ==
    /\ id \in DOMAIN h
    /\ h[id].kind = kind
    /\ h[id].operands = <<l, r>>

\* Value v is a reference to an operator node of class kind whose operands
\* stand for the values l and r, in order.
IsBuilt(h, v, kind, l, r) ==
    /\ v.tag = "ref"
    /\ v.n \in DOMAIN h
    /\ h[v.n].kind = kind
    /\ Len(h[v.n].operands) = 2
    /\ Represents(h, h[v.n].operands[1], l)
    /\ Represents(h, h[v.n].operands[2], r)

RECURSIVE Reachable(_, _)
\* The node instances reachable from node i, i included.
Reachable(h, i) ==
    {i} \cup UNION {Reachable(h, h[i].operands[k]) : k \in DOMAIN h[i].operands}

\* The calls of fn made on nodes of class kind.
CallsOn(kind) == {i \in DOMAIN calls : heap[calls[i].node].kind = kind}

IsSymbol(h, id, name) == h[id].kind = "Symbol" /\ h[id].value = PyStr(name)

IsNumber(h, id, value) == h[id].kind = "Number" /\ h[id].value = PyInt(value)

(***************************************************************************)
(* C1: one call of postvisitor invokes fn exactly once per node instance   *)
(* reachable from the root, however many parents share the instance.       *)
(***************************************************************************)
C1_FnOncePerNodeInstance ==
    /\ \A i, j \in DOMAIN calls : calls[i].node = calls[j].node => i = j
    /\ pc = "returned" =>
          \A n \in Reachable(heap, expr) : \E i \in DOMAIN calls : calls[i].node = n

(***************************************************************************)
(* C2: differentiating a tree that holds a Sub(a, b) node raises nothing,  *)
(* and the rule gives for that node the Sub node o0 - o1.                  *)
(***************************************************************************)
C2_SubIsDifferentiated ==
    fn = "differentiate" =>
        /\ exc # "NotImplementedError"
        /\ \A i \in CallsOn("Sub") :
              IsBuilt(heap, calls[i].result, "Sub", calls[i].args[1], calls[i].args[2])

(***************************************************************************)
(* C3: the Add rule returns a new Add node over the derivatives of its two *)
(* operands, in order, for every operand including terminals: the result   *)
(* is never a collapsed number.                                            *)
(***************************************************************************)
C3_AddRuleBuildsAddNode ==
    fn = "differentiate" =>
        \A i \in CallsOn("Add") :
            calls[i].exc = "" =>
                IsBuilt(heap, calls[i].result, "Add", calls[i].args[1], calls[i].args[2])

(***************************************************************************)
(* C4: the Mul, Div and Pow rules return exactly the tree of the rule      *)
(* table, over the results o0, o1 and the ORIGINAL operands a, b:          *)
(*   Mul: Add(Mul(o0, b), Mul(o1, a))                                      *)
(*   Div: Div(Sub(Mul(o0, b), Mul(o1, a)), Pow(b, 2))                      *)
(*   Pow: Mul(Mul(o0, b), Pow(a, Sub(b, 1)))                               *)
(* so d/dx of x*x renders "1 * x + 1 * x", of x/2 "(1 * 2 - 0 * x) / 2 ^ 2" *)
(* and of x^3 "1 * 3 * x ^ (3 - 1)".                                       *)
(***************************************************************************)
\* Node id is Mul(o, c): the first operand stands for the result o, the
\* second IS the original node c.
IsMulOf(h, id, o, c) ==
    /\ id \in DOMAIN h
    /\ h[id].kind = "Mul"
    /\ Len(h[id].operands) = 2
    /\ Represents(h, h[id].operands[1], o)
    /\ h[id].operands[2] = c

MulRuleTree(h, c) ==
    LET a == h[c.node].operands[1]
        b == h[c.node].operands[2]
        r == c.result
    IN  /\ r.tag = "ref" /\ r.n \in DOMAIN h
        /\ h[r.n].kind = "Add" /\ Len(h[r.n].operands) = 2
        /\ IsMulOf(h, h[r.n].operands[1], c.args[1], b)
        /\ IsMulOf(h, h[r.n].operands[2], c.args[2], a)

DivRuleTree(h, c) ==
    LET a == h[c.node].operands[1]
        b == h[c.node].operands[2]
        r == c.result
    IN  /\ r.tag = "ref" /\ r.n \in DOMAIN h
        /\ h[r.n].kind = "Div" /\ Len(h[r.n].operands) = 2
        /\ LET num == h[r.n].operands[1]
               den == h[r.n].operands[2]
           IN  /\ h[num].kind = "Sub" /\ Len(h[num].operands) = 2
               /\ IsMulOf(h, h[num].operands[1], c.args[1], b)
               /\ IsMulOf(h, h[num].operands[2], c.args[2], a)
               /\ h[den].kind = "Pow" /\ Len(h[den].operands) = 2
               /\ h[den].operands[1] = b
               /\ IsNumber(h, h[den].operands[2], 2)

PowRuleTree(h, c) ==
    LET a == h[c.node].operands[1]
        b == h[c.node].operands[2]
        r == c.result
    IN  /\ r.tag = "ref" /\ r.n \in DOMAIN h
        /\ h[r.n].kind = "Mul" /\ Len(h[r.n].operands) = 2
        /\ IsMulOf(h, h[r.n].operands[1], c.args[1], b)
        /\ LET p == h[r.n].operands[2]
           IN  /\ h[p].kind = "Pow" /\ Len(h[p].operands) = 2
               /\ h[p].operands[1] = a
               /\ LET d == h[p].operands[2]
                  IN  /\ h[d].kind = "Sub" /\ Len(h[d].operands) = 2
                      /\ h[d].operands[1] = b
                      /\ IsNumber(h, h[d].operands[2], 1)

\* The root is the operator kind over two terminals.
RootIs(kind, Left(_, _), Right(_, _)) ==
    /\ expr \in DOMAIN heap
    /\ heap[expr].kind = kind
    /\ Left(heap, heap[expr].operands[1])
    /\ Right(heap, heap[expr].operands[2])

IsX(h, id) == IsSymbol(h, id, "x")

IsTwo(h, id) == IsNumber(h, id, 2)

IsThree(h, id) == IsNumber(h, id, 3)

DifferentiatedByX == pc = "returned" /\ fn = "differentiate" /\ var = "x"

\* C4: every differentiate call on a Mul, Div or Pow node returns the rule
\* table's tree over the original operands, and the three examples render
\* as stated.
C4_MulDivPowRules ==
    fn = "differentiate" =>
        /\ \A i \in CallsOn("Mul") : MulRuleTree(heap, calls[i])
        /\ \A i \in CallsOn("Div") : DivRuleTree(heap, calls[i])
        /\ \A i \in CallsOn("Pow") : PowRuleTree(heap, calls[i])
        /\ DifferentiatedByX /\ RootIs("Mul", IsX, IsX) =>
              str(heap, result) = "1 * x + 1 * x"
        /\ DifferentiatedByX /\ RootIs("Div", IsX, IsTwo) =>
              str(heap, result) = "(1 * 2 - 0 * x) / 2 ^ 2"
        /\ DifferentiatedByX /\ RootIs("Pow", IsX, IsThree) =>
              str(heap, result) = "1 * 3 * x ^ (3 - 1)"

C4_Witness ==
    /\ DifferentiatedByX
    /\ RootIs("Pow", IsX, IsThree)
    /\ str(heap, result) = "1 * 3 * x ^ (3 - 1)"

(***************************************************************************)
(* C5: differentiating Symbol(s) with respect to t gives a result that     *)
(* renders "1" when s = t and "0" when s # t; differentiating Number(v)    *)
(* gives a result that renders "0".                                        *)
(***************************************************************************)
C5_TerminalDerivatives ==
    pc = "returned" /\ fn = "differentiate" =>
        /\ heap[expr].kind = "Symbol" =>
              str(heap, result) = (IF heap[expr].value.s = var THEN "1" ELSE "0")
        /\ heap[expr].kind = "Number" => str(heap, result) = "0"

C5_Witness ==
    /\ pc = "returned" /\ fn = "differentiate"
    /\ heap[expr].kind = "Symbol"
    /\ heap[expr].value.s # var
    /\ str(heap, result) = "0"

(***************************************************************************)
(* C6: an overloaded operator called with (left, right), at least one of   *)
(* them a node, builds a node of that operator whose operands are          *)
(* (left', right') in the order given, a raw literal v replaced by a new   *)
(* Number(v) terminal; literal-first subtraction, division and power are   *)
(* never swapped; the nodes that existed are left unchanged.               *)
(***************************************************************************)
\* Node id stands for the operand v: the node v itself, or a Number(v)
\* terminal made by this call (it did not exist in the heap `before`).
OperandOf(before, after, id, v) ==
    /\ Represents(after, id, v)
    /\ v.tag = "int" => id > Len(before)

\* C6: every operator call builds op(left', right') in the order given and
\* leaves every existing node unchanged.
C6_OperandOrderPreserved ==
    [][pc = "idle" /\ heap' # heap =>
          /\ \A i \in DOMAIN heap : i \in DOMAIN heap' /\ heap'[i] = heap[i]
          /\ lastOp'.op # "none" =>
                LET new == heap'[Len(heap')]
                IN  /\ new.kind = lastOp'.op
                    /\ Len(new.operands) = 2
                    /\ OperandOf(heap, heap', new.operands[1], lastOp'.left)
                    /\ OperandOf(heap, heap', new.operands[2], lastOp'.right)]_vars

C6_Witness ==
    /\ pc = "idle"
    /\ lastOp.op = "Sub"
    /\ lastOp.left.tag = "int"
    /\ lastOp.right.tag = "ref"
    /\ heap[Len(heap)].operands = <<Len(heap) - 1, lastOp.right.n>>

(***************************************************************************)
(* C7: an operator renders as "LEFT SYM RIGHT", an operand wrapped in      *)
(* parentheses if and only if its kind has strictly lower precedence than  *)
(* the parent's (Add/Sub = 0, Mul/Div = 1, Pow = 2, terminals = 3);        *)
(* terminals and operands of equal or higher precedence are never wrapped. *)
(***************************************************************************)
Rank(kind) ==
    IF kind \in {"Add", "Sub"} THEN 0
    ELSE IF kind \in {"Mul", "Div"} THEN 1
    ELSE IF kind = "Pow" THEN 2
    ELSE 3

Sign(kind) ==
    IF kind = "Add" THEN "+"
    ELSE IF kind = "Sub" THEN "-"
    ELSE IF kind = "Mul" THEN "*"
    ELSE IF kind = "Div" THEN "/"
    ELSE "^"

RECURSIVE Canonical(_, _)
\* The canonical text of node i, as the claim states it.
Canonical(h, i) ==
    IF h[i].operands = <<>>
      THEN (IF h[i].kind = "Number" THEN ToString(h[i].value.n) ELSE h[i].value.s)
    ELSE LET Wrapped(c) ==
                 IF Rank(h[c].kind) < Rank(h[i].kind)
                   THEN "(" \o Canonical(h, c) \o ")"
                 ELSE Canonical(h, c)
         IN  Wrapped(h[i].operands[1]) \o " " \o Sign(h[i].kind) \o " "
                 \o Wrapped(h[i].operands[2])

\* C7: str() of a node is its canonical text; (x + x) * x keeps the
\* parentheses and x * x + x has none.
C7_RenderParenthesization ==
    pc = "rendered" =>
        /\ out = Canonical(heap, expr)
        /\ heap[expr].kind = "Mul"
              /\ IsOperatorNode(heap, heap[expr].operands[1], "Add", 1, 1)
              /\ heap[expr].operands[2] = 1 /\ IsX(heap, 1)
              => out = "(x + x) * x"
        /\ heap[expr].kind = "Add"
              /\ IsOperatorNode(heap, heap[expr].operands[1], "Mul", 1, 1)
              /\ heap[expr].operands[2] = 1 /\ IsX(heap, 1)
              => out = "x * x + x"

C7_Witness ==
    /\ pc = "rendered"
    /\ heap[expr].kind = "Mul"
    /\ heap[heap[expr].operands[1]].kind = "Add"
    /\ out = "(x + x) * x"

(***************************************************************************)
(* C8: whenever fn is invoked on a node, every operand of the node already *)
(* has a memoized result, and fn receives those results positionally, the  *)
(* left result first: no parent is evaluated before both its operands.     *)
(***************************************************************************)
\* The memoized result of node n when call i is made: the result of the
\* last earlier call on n (a set: empty when n has no result yet).
MemoAt(i, n) ==
    {calls[j].result : j \in {j \in 1..(i - 1) :
        /\ calls[j].node = n
        /\ calls[j].exc = ""
        /\ \A k \in (j + 1)..(i - 1) : calls[k].node # n}}

\* C8: every call of fn gets, position by position, the results memoized
\* for the node's operands, each of which was evaluated before.
C8_OperandsBeforeParent ==
    /\ exc # "KeyError"
    /\ \A i \in DOMAIN calls :
          LET ops == heap[calls[i].node].operands
          IN  /\ Len(calls[i].args) = Len(ops)
              /\ \A k \in DOMAIN ops : MemoAt(i, ops[k]) = {calls[i].args[k]}

C8_Witness ==
    \E i \in DOMAIN calls :
        /\ Len(calls[i].args) = 2
        /\ calls[i].args[1] # calls[i].args[2]
        /\ heap[calls[i].node].operands[1] # heap[calls[i].node].operands[2]

(***************************************************************************)
(* C9: rendering, and differentiating through postvisitor, a left-leaning  *)
(* chain of nested Add nodes uses a depth of nested calls that does not    *)
(* grow with the depth of the tree, so a bounded call stack is never       *)
(* exhausted.                                                              *)
(***************************************************************************)
\* The nesting a traversal of one operator over two terminals uses.
OneOperatorDepth ==
    LET x == Symbol(<<>>, PyStr("x"))
        e == binary_op(x.heap, "Add", x.val, x.val)
    IN  str_depth(e.heap, e.val.n)

RECURSIVE LeftLeaningAddChain(_, _)
\* Node i is a terminal, or Add(chain, terminal).
LeftLeaningAddChain(h, i) ==
    \/ h[i].kind \in TerminalKinds
    \/ /\ h[i].kind = "Add"
       /\ h[h[i].operands[2]].kind \in TerminalKinds
       /\ LeftLeaningAddChain(h, h[i].operands[1])

\* C9: a completed render or differentiation of a left-leaning Add chain
\* nested no more calls than one operator over two terminals does.
C9_CallDepthIndependentOfTreeDepth ==
    pc \in {"rendered", "returned"} /\ LeftLeaningAddChain(heap, expr) =>
        depth <= OneOperatorDepth

(***************************************************************************)
(* C10: on a finite acyclic tree and a total fold, postvisitor terminates; *)
(* the root is the last node evaluated, the loop ends exactly when the     *)
(* root has received a result (the work stack is empty then), and the      *)
(* value returned is the memoized result of the root.                      *)
(***************************************************************************)
\* The fold is total on the tree under the root (differentiate has no rule
\* for Sub).
TotalOnTree ==
    fn = "count" \/ \A n \in Reachable(heap, expr) : heap[n].kind # "Sub"

RootEvaluatedLast ==
    /\ calls # <<>>
    /\ calls[Len(calls)].node = expr
    /\ \A i \in 1..(Len(calls) - 1) : calls[i].node # expr

\* C10: the stack is empty exactly when the root has a result; the root is
\* evaluated last; the returned value is the root's memoized result; a run
\* whose fold is total on the tree eventually returns.
C10_TerminatesWithRootResult ==
    /\ [](pc = "loop" => (stack = <<>> <=> expr \in DOMAIN visited))
    /\ [](pc = "loop" /\ stack = <<>> => RootEvaluatedLast)
    /\ [](pc = "returned" =>
            /\ stack = <<>>
            /\ RootEvaluatedLast
            /\ result = visited[expr]
            /\ result = calls[Len(calls)].result)
    /\ [](pc = "loop" /\ TotalOnTree => <>(pc = "returned"))

C10_Witness ==
    /\ pc = "returned"
    /\ Cardinality(Reachable(heap, expr)) = 2
    /\ Len(calls) = 3
    /\ result = visited[expr]

====
